---- MODULE Spec2Model ----
(***************************************************************************)
(* Model of SavedTracksModel (saved_tracks_model.rs): the view model of    *)
(* the saved-tracks list.  It reads the shared AppState, dispatches        *)
(* actions through an ActionDispatcher and schedules paginated fetches.    *)
(* The store, the dispatcher, the fetch client and the cursor arithmetic   *)
(* live outside saved_tracks_model.rs and are modelled from spec.md.       *)
(***************************************************************************)
EXTENDS Integers, Sequences, FiniteSets, TLC

VARIABLES
    library,                 \* the user's saved tracks on the server, as the fetch client pages them
    home,                    \* browser.home_state() is Some
    saved_tracks,            \* home_state.saved_tracks
    last_saved_tracks_batch, \* home_state.last_saved_tracks_batch
    selection,               \* AppState.selection
    playback,                \* AppState.playback
    channel,                 \* actions dispatched and not yet applied by the store
    fetches,                 \* fetches scheduled by load_more and not yet completed
    rendered,                \* the list the view has rendered from the diffs it was given
    dropped,                 \* the view and its SavedTracksModel have been dropped
    call                     \* the last operation that ran, with what it returned and dispatched

vars == <<library, home, saved_tracks, last_saved_tracks_batch, selection, playback,
          channel, fetches, rendered, dropped, call>>

app_state == <<home, saved_tracks, last_saved_tracks_batch, selection, playback>>

----------------------------------------------------------------------------
(* Bounds *)

MaxTotal == 5       \* songs in the user's library on the server
MaxBatch == 3       \* page sizes tried
MaxPages == 3       \* pages a library is split in
MaxChannel == 2     \* actions waiting in the dispatcher's channel
MaxFetches == 2     \* fetches in flight
MaxTracks == 7      \* length saved_tracks may grow to (a page can be appended twice)
MaxIndex == 1       \* start indexes tried in events, besides the list's length and one past it

----------------------------------------------------------------------------
(* Values *)

Unit == [kind |-> "Unit"]
None == [kind |-> "None"]
Some(v) == [kind |-> "Some", val |-> v]

Min(a, b) == IF a < b THEN a ELSE b
Max(a, b) == IF a > b THEN a ELSE b

Ids == <<"A", "B", "C", "D", "E", "F", "G", "H">>

\* ArtistRef: id and name, the name as its characters
Artist1 == [id |-> "ar1", name |-> <<"R", "&", "B">>]
Artist2 == [id |-> "ar2", name |-> <<"<", "3", "'", "\"", "">>]   \* the last is U+0001

\* SongDescription: id and ordered artists (title, album, duration carry no behaviour here)
ArtistsOf(i) == IF i % 2 = 1 THEN <<Artist1>> ELSE <<Artist2, Artist1>>
Song(i) == [id |-> Ids[i], artists |-> ArtistsOf(i)]

\* the server-side list the fetch client pages through
Library(total) == [i \in 1..total |-> Song(i)]

\* ids the UI passes to the view model: one that can be in the list, one that never is
InputIds == {"B", "X"}

Contexts == {"Queue", "Playlist"}

\* AppEvent values delivered to diff_for_event
SavedTracksAppended(i) == [tag |-> "SavedTracksAppended", index |-> i]
OtherEvents == {[tag |-> "TrackChanged", index |-> 0],
                [tag |-> "SelectionChanged", index |-> 0]}
Events(len) == {SavedTracksAppended(i) : i \in 0..MaxIndex \cup {len, len + 1}} \cup OtherEvents

\* AppAction values
LoadPagedSongs(source, batch) == [tag |-> "LoadPagedSongs", source |-> source, batch |-> batch]
Load(id) == [tag |-> "Load", id |-> id]
Select(songs) == [tag |-> "Select", songs |-> songs]
Deselect(ids) == [tag |-> "Deselect", ids |-> ids]
ChangeSelectionMode(b) == [tag |-> "ChangeSelectionMode", active |-> b]
AppendSavedTracks(batch) == [tag |-> "AppendSavedTracks", batch |-> batch]
FetchFailed == [tag |-> "FetchFailed"]

SelectionTools == {"SelectAll", "MoveUp"}

----------------------------------------------------------------------------
(* Collaborators outside saved_tracks_model.rs *)

\* Batch::next(): the cursor of the page after b, absent at the end of the list
BatchNext(b) ==
    IF b.offset + b.batch_size >= b.total
    THEN None
    ELSE Some([offset |-> b.offset + b.batch_size, batch_size |-> b.batch_size, total |-> b.total])

\* songs.skip(n) / a slice of a sequence
Skip(s, n) == [j \in 1..Max(0, Len(s) - n) |-> s[j + n]]
Take(s, n) == [j \in 1..Min(n, Len(s)) |-> s[j]]

\* SpotifyApiClient::get_saved_tracks(offset, limit), when it succeeds
get_saved_tracks(offset, limit) ==
    [batch |-> [offset |-> offset, batch_size |-> limit, total |-> Len(library)],
     songs |-> Take(Skip(library, offset), limit)]

\* SongDescription::to_song_model(position)
to_song_model(s, position) == [id |-> s.id, artists |-> s.artists, position |-> position]

\* ActionDispatcher::dispatch: the action joins the channel the store reads
dispatch(q, action) == Append(q, action)

\* ListDiff values
ListAppend(items) == [diff |-> "Append", items |-> items]
ListReset(items) == [diff |-> "Reset", items |-> items]

\* the view applies a diff to the list it shows
ApplyDiff(list, d) ==
    IF d = None THEN list
    ELSE IF d.val.diff = "Append" THEN list \o d.val.items
    ELSE d.val.items

\* SelectionToolsModel::handle_select_all_tool(selection, songs)
handle_select_all_tool(sel, all) == <<Select(all)>>

\* SelectionToolsModel::default_handle_tool_activated(selection, tool)
default_handle_tool_activated(sel, tool) == <<>>

----------------------------------------------------------------------------
(* SavedTracksModel *)

songs_BeforeLastPage ==
    IF home THEN Some(Take(saved_tracks, last_saved_tracks_batch.offset)) ELSE None

\* fn songs(&self)
songs == IF home THEN Some(saved_tracks) ELSE None

\* songs.iter().find(|song| song.id == id)
find(list, id) ==
    IF \E i \in 1..Len(list) : list[i].id = id
    THEN Some(list[CHOOSE i \in 1..Len(list) :
                     /\ list[i].id = id
                     /\ \A j \in 1..(i - 1) : list[j].id # id])
    ELSE None

\* what one call of the view model does: the value it returns, the actions it
\* dispatches in order, and the fetches it schedules
Outcome(ret, sent, sched) == [ret |-> ret, sent |-> sent, sched |-> sched]

load_more_FromCursor ==
    IF ~home THEN Outcome(None, <<>>, <<>>)
    ELSE LET batch == BatchNext(last_saved_tracks_batch) IN
         IF batch = None THEN Outcome(None, <<>>, <<>>)
         ELSE Outcome(Some(Unit), <<>>,
                      <<[offset |-> last_saved_tracks_batch.offset,
                         limit |-> last_saved_tracks_batch.batch_size]>>)

load_more_OneAtATime ==
    IF ~home \/ fetches # <<>> THEN Outcome(None, <<>>, <<>>)
    ELSE LET batch == BatchNext(last_saved_tracks_batch) IN
         IF batch = None THEN Outcome(None, <<>>, <<>>)
         ELSE Outcome(Some(Unit), <<>>,
                      <<[offset |-> batch.val.offset, limit |-> batch.val.batch_size]>>)

\* pub fn load_more(&self) -> Option<()>
load_more ==
    IF ~home THEN Outcome(None, <<>>, <<>>)
    ELSE LET batch == BatchNext(last_saved_tracks_batch) IN
         IF batch = None THEN Outcome(None, <<>>, <<>>)
         ELSE Outcome(Some(Unit), <<>>,
                      <<[offset |-> batch.val.offset, limit |-> batch.val.batch_size]>>)

fetch_continuation_WeakView(result) ==
    IF result.ok /\ ~dropped
    THEN [ok |-> TRUE, action |-> AppendSavedTracks(result.batch)]
    ELSE [ok |-> FALSE, action |-> FetchFailed]

fetch_continuation_Lenient(result) ==
    IF result.ok
    THEN [ok |-> TRUE, action |-> AppendSavedTracks(result.batch)]
    ELSE [ok |-> TRUE, action |-> AppendSavedTracks(
              [batch |-> [offset |-> result.offset, batch_size |-> result.limit,
                          total |-> Len(library)],
               songs |-> <<>>])]

\* the closure load_more hands to call_spotify_and_dispatch:
\* get_saved_tracks(..).await.map(|song_batch| AppendSavedTracks(song_batch))
fetch_continuation(result) ==
    IF result.ok
    THEN [ok |-> TRUE, action |-> AppendSavedTracks(result.batch)]
    ELSE [ok |-> FALSE, action |-> FetchFailed]

\* fn current_song_id(&self)
current_song_id == playback.current_song_id

play_song_LoadFirst(id) ==
    Outcome(Unit,
            <<Load(id)>> \o
            (IF home
             THEN <<LoadPagedSongs(Some("SavedTracks"),
                                   [batch |-> last_saved_tracks_batch, songs |-> saved_tracks])>>
             ELSE <<>>),
            <<>>)

play_song_KnownOnly(id) ==
    IF home /\ find(saved_tracks, id) # None
    THEN Outcome(Unit,
                 <<LoadPagedSongs(Some("SavedTracks"),
                                  [batch |-> last_saved_tracks_batch, songs |-> saved_tracks]),
                   Load(id)>>,
                 <<>>)
    ELSE Outcome(Unit, <<>>, <<>>)

\* fn play_song(&self, id: &str)
play_song(id) ==
    Outcome(Unit,
            (IF home
             THEN <<LoadPagedSongs(Some("SavedTracks"),
                                   [batch |-> last_saved_tracks_batch, songs |-> saved_tracks])>>
             ELSE <<>>)
            \o <<Load(id)>>,
            <<>>)

diff_for_event_Relative(event) ==
    IF songs = None THEN None
    ELSE LET rest == Skip(songs.val, event.index) IN
         IF event.tag = "SavedTracksAppended"
         THEN Some(ListAppend([i \in 1..Len(rest) |-> to_song_model(rest[i], i - 1)]))
         ELSE None

diff_for_event_AnyEvent(event) ==
    IF songs = None THEN None
    ELSE LET all == [i \in 1..Len(songs.val) |-> to_song_model(songs.val[i], i - 1)] IN
         Some(ListAppend(Skip(all, event.index)))

diff_for_event_NoneWhenEmpty(event) ==
    IF songs = None THEN None
    ELSE LET all == [i \in 1..Len(songs.val) |-> to_song_model(songs.val[i], i - 1)] IN
         IF event.tag = "SavedTracksAppended" /\ event.index < Len(all)
         THEN Some(ListAppend(Skip(all, event.index)))
         ELSE None

\* fn diff_for_event(&self, event: &AppEvent) -> Option<ListDiff<SongModel>>
diff_for_event(event) ==
    IF songs = None THEN None
    ELSE LET all == [i \in 1..Len(songs.val) |-> to_song_model(songs.val[i], i - 1)] IN
         IF event.tag = "SavedTracksAppended"
         THEN Some(ListAppend(Skip(all, event.index)))
         ELSE None

\* fn autoscroll_to_playing(&self) -> bool
autoscroll_to_playing == TRUE

\* SongDescription::make_artist_actions / make_album_action / make_link_action:
\* the names of the actions they build
make_artist_actions(song) ==
    [i \in 1..Len(song.artists) |-> <<"view_artist_", song.artists[i].id>>]
make_album_action(song) == <<"view_album">>
make_link_action(song) == <<"copy_link">>

\* the characters glib writes as numeric references, each with the lower-case
\* hexadecimal digits of its code point: U+0001..U+0008, U+000B, U+000C,
\* U+000E..U+001F, U+007F..U+0084 and U+0086..U+009F, in that order
ControlHex ==
    ("" :> <<"1">>) @@
    ("" :> <<"2">>) @@
    ("" :> <<"3">>) @@
    ("" :> <<"4">>) @@
    ("" :> <<"5">>) @@
    ("" :> <<"6">>) @@
    ("" :> <<"7">>) @@
    ("" :> <<"8">>) @@
    ("" :> <<"b">>) @@
    ("" :> <<"c">>) @@
    ("" :> <<"e">>) @@
    ("" :> <<"f">>) @@
    ("" :> <<"1", "0">>) @@
    ("" :> <<"1", "1">>) @@
    ("" :> <<"1", "2">>) @@
    ("" :> <<"1", "3">>) @@
    ("" :> <<"1", "4">>) @@
    ("" :> <<"1", "5">>) @@
    ("" :> <<"1", "6">>) @@
    ("" :> <<"1", "7">>) @@
    ("" :> <<"1", "8">>) @@
    ("" :> <<"1", "9">>) @@
    ("" :> <<"1", "a">>) @@
    ("" :> <<"1", "b">>) @@
    ("" :> <<"1", "c">>) @@
    ("" :> <<"1", "d">>) @@
    ("" :> <<"1", "e">>) @@
    ("" :> <<"1", "f">>) @@
    ("" :> <<"7", "f">>) @@
    ("" :> <<"8", "0">>) @@
    ("" :> <<"8", "1">>) @@
    ("" :> <<"8", "2">>) @@
    ("" :> <<"8", "3">>) @@
    ("" :> <<"8", "4">>) @@
    ("" :> <<"8", "6">>) @@
    ("" :> <<"8", "7">>) @@
    ("" :> <<"8", "8">>) @@
    ("" :> <<"8", "9">>) @@
    ("" :> <<"8", "a">>) @@
    ("" :> <<"8", "b">>) @@
    ("" :> <<"8", "c">>) @@
    ("" :> <<"8", "d">>) @@
    ("" :> <<"8", "e">>) @@
    ("" :> <<"8", "f">>) @@
    ("" :> <<"9", "0">>) @@
    ("" :> <<"9", "1">>) @@
    ("" :> <<"9", "2">>) @@
    ("" :> <<"9", "3">>) @@
    ("" :> <<"9", "4">>) @@
    ("" :> <<"9", "5">>) @@
    ("" :> <<"9", "6">>) @@
    ("" :> <<"9", "7">>) @@
    ("" :> <<"9", "8">>) @@
    ("" :> <<"9", "9">>) @@
    ("" :> <<"9", "a">>) @@
    ("" :> <<"9", "b">>) @@
    ("" :> <<"9", "c">>) @@
    ("" :> <<"9", "d">>) @@
    ("" :> <<"9", "e">>) @@
    ("" :> <<"9", "f">>)

\* glib::markup_escape_text: & < > ' " become the entities amp, lt, gt, apos, quot;
\* a control character becomes &#x..; with its code point; anything else is kept
RECURSIVE markup_escape_text(_)
markup_escape_text(text) ==
    IF text = <<>> THEN <<>>
    ELSE LET c == Head(text) IN
         (IF c = "&" THEN <<"&", "a", "m", "p", ";">>
          ELSE IF c = "<" THEN <<"&", "l", "t", ";">>
          ELSE IF c = ">" THEN <<"&", "g", "t", ";">>
          ELSE IF c = "'" THEN <<"&", "a", "p", "o", "s", ";">>
          ELSE IF c = "\"" THEN <<"&", "q", "u", "o", "t", ";">>
          ELSE IF c \in DOMAIN ControlHex THEN <<"&", "#", "x">> \o ControlHex[c] \o <<";">>
          ELSE <<c>>)
         \o markup_escape_text(Tail(text))

\* menu.append(Some(label), Some(detailed_action))
MenuItem(label, action) == [label |-> label, action |-> action]

actions_for_Eager(id) ==
    LET song == IF songs = None THEN None ELSE find(songs.val, id) IN
    IF song = None THEN Outcome(None, <<>>, <<>>)
    ELSE Outcome(Some(make_artist_actions(song.val)
                      \o <<make_album_action(song.val), make_link_action(song.val)>>),
                 <<[tag |-> "ViewAlbum"]>>, <<>>)

\* fn actions_for(&self, id: &str) -> Option<gio::ActionGroup>
actions_for(id) ==
    LET song == IF songs = None THEN None ELSE find(songs.val, id) IN
    IF song = None THEN Outcome(None, <<>>, <<>>)
    ELSE Outcome(Some(make_artist_actions(song.val)
                      \o <<make_album_action(song.val), make_link_action(song.val)>>),
                 <<>>, <<>>)

menu_for_ArtistsFirst(id) ==
    LET song == IF songs = None THEN None ELSE find(songs.val, id) IN
    IF song = None THEN Outcome(None, <<>>, <<>>)
    ELSE Outcome(Some([i \in 1..Len(song.val.artists) |->
                          MenuItem(<<"MORE_FROM", " ",
                                     markup_escape_text(song.val.artists[i].name)>>,
                                   <<"song.view_artist_", song.val.artists[i].id>>)]
                      \o <<MenuItem(<<"VIEW_ALBUM">>, <<"song.view_album">>)>>
                      \o <<MenuItem(<<"COPY_LINK">>, <<"song.copy_link">>)>>),
                 <<>>, <<>>)

\* fn menu_for(&self, id: &str) -> Option<gio::MenuModel>
menu_for(id) ==
    LET song == IF songs = None THEN None ELSE find(songs.val, id) IN
    IF song = None THEN Outcome(None, <<>>, <<>>)
    ELSE Outcome(Some(<<MenuItem(<<"VIEW_ALBUM">>, <<"song.view_album">>)>>
                      \o [i \in 1..Len(song.val.artists) |->
                             MenuItem(<<"MORE_FROM", " ",
                                        markup_escape_text(song.val.artists[i].name)>>,
                                      <<"song.view_artist_", song.val.artists[i].id>>)]
                      \o <<MenuItem(<<"COPY_LINK">>, <<"song.copy_link">>)>>),
                 <<>>, <<>>)

select_song_BareId(id) ==
    Outcome(Unit, <<Select(<<[id |-> id, artists |-> <<>>]>>)>>, <<>>)

\* fn select_song(&self, id: &str)
select_song(id) ==
    LET song == IF songs = None THEN None ELSE find(songs.val, id) IN
    IF song # None
    THEN Outcome(Unit, <<Select(<<song.val>>)>>, <<>>)
    ELSE Outcome(Unit, <<>>, <<>>)

\* fn deselect_song(&self, id: &str)
deselect_song(id) == Outcome(Unit, <<Deselect(<<id>>)>>, <<>>)

\* fn enable_selection(&self) -> bool
enable_selection == Outcome(TRUE, <<ChangeSelectionMode(TRUE)>>, <<>>)

PlaylistModel_selection_Always == Some(selection)

\* impl PlaylistModel: fn selection(&self)
PlaylistModel_selection ==
    IF selection.context = "Queue" THEN Some(selection) ELSE None

\* impl SelectionToolsModel: fn selection(&self)
SelectionToolsModel_selection ==
    IF selection.context = "Queue" THEN Some(selection) ELSE None

\* fn tools_visible(&self, _: &SelectionState) -> Vec<SelectionTool>
tools_visible(sel) == <<"SelectAll">>

\* which handler a tool was handed to, and with what
Handled(handler, sel, arg) == [handler |-> handler, selection |-> sel, arg |-> arg]

handle_tool_activated_AnyTool(sel, tool) ==
    IF songs # None
    THEN Outcome(Handled("handle_select_all_tool", sel, songs.val),
                 handle_select_all_tool(sel, songs.val), <<>>)
    ELSE Outcome(Handled("none", sel, tool), <<>>, <<>>)

\* fn handle_tool_activated(&self, selection: &SelectionState, tool: &SelectionTool)
handle_tool_activated(sel, tool) ==
    IF tool = "SelectAll"
    THEN IF songs # None
         THEN Outcome(Handled("handle_select_all_tool", sel, songs.val),
                      handle_select_all_tool(sel, songs.val), <<>>)
         ELSE Outcome(Handled("none", sel, tool), <<>>, <<>>)
    ELSE Outcome(Handled("default_handle_tool_activated", sel, tool),
                 default_handle_tool_activated(sel, tool), <<>>)

----------------------------------------------------------------------------
(* The store: AppState's reducers, and the delivery of events to the view *)

\* what the home state does with BrowserAction::AppendSavedTracks(song_batch)
ReduceAppend(batch) ==
    IF home
    THEN [saved_tracks |-> saved_tracks \o batch.songs,
          last_saved_tracks_batch |-> batch.batch,
          events |-> <<SavedTracksAppended(Len(saved_tracks))>>]
    ELSE [saved_tracks |-> saved_tracks,
          last_saved_tracks_batch |-> last_saved_tracks_batch,
          events |-> <<>>]

\* SelectionAction::Select / Deselect and AppAction::ChangeSelectionMode
ReduceSelection(action) ==
    IF action.tag = "Select"
    THEN [selection EXCEPT !.selected = @ \cup {action.songs[i] : i \in 1..Len(action.songs)}]
    ELSE IF action.tag = "Deselect"
    THEN [selection EXCEPT !.selected =
             {s \in @ : \A i \in 1..Len(action.ids) : s.id # action.ids[i]}]
    ELSE IF action.tag = "ChangeSelectionMode"
    THEN [selection EXCEPT !.mode = action.active,
                           !.selected = IF action.active THEN @ ELSE {}]
    ELSE selection

\* PlaybackAction::LoadPagedSongs / Load
ReducePlayback(action) ==
    IF action.tag = "LoadPagedSongs"
    THEN [playback EXCEPT !.source = action.source, !.queued = Len(action.batch.songs)]
    ELSE IF action.tag = "Load"
    THEN [playback EXCEPT !.current_song_id = Some(action.id)]
    ELSE playback

\* the events a reducer emits for an action
EventsOf(action) ==
    IF action.tag = "AppendSavedTracks" THEN ReduceAppend(action.batch).events
    ELSE IF action.tag = "Load" THEN <<[tag |-> "TrackChanged", index |-> 0]>>
    ELSE IF action.tag \in {"Select", "Deselect", "ChangeSelectionMode"}
    THEN <<[tag |-> "SelectionChanged", index |-> 0]>>
    ELSE <<>>

\* songs a sequence of fetches and of waiting actions can still add to saved_tracks
RECURSIVE PendingGrowth(_, _)
PendingGrowth(fs, q) ==
    IF fs # <<>>
    THEN Len(get_saved_tracks(Head(fs).offset, Head(fs).limit).songs) + PendingGrowth(Tail(fs), q)
    ELSE IF q # <<>>
    THEN (IF Head(q).tag = "AppendSavedTracks" THEN Len(Head(q).batch.songs) ELSE 0)
         + PendingGrowth(fs, Tail(q))
    ELSE 0

Remove(s, i) == [j \in 1..(Len(s) - 1) |-> IF j < i THEN s[j] ELSE s[j + 1]]

----------------------------------------------------------------------------
(* Initial state: the view model is constructed over a store whose home    *)
(* state, when present, holds the first pages of the library, the cursor   *)
(* describing the last page fetched.                                       *)

Init ==
    /\ home \in BOOLEAN
    /\ library \in {Library(t) : t \in (IF home THEN 0..MaxTotal ELSE {MaxBatch})}
    /\ \E bs \in (IF home THEN 1..MaxBatch ELSE {1}) :
       \E pages \in (IF home THEN 1..Max(1, Len(library)) ELSE {1}) :
         /\ Len(library) <= bs * MaxPages
         /\ (pages - 1) * bs < Max(1, Len(library))
         /\ last_saved_tracks_batch =
                [offset |-> (pages - 1) * bs, batch_size |-> bs, total |-> Len(library)]
         /\ saved_tracks = IF home THEN Take(library, pages * bs) ELSE <<>>
    /\ selection = [context |-> "Queue", mode |-> FALSE, selected |-> {}]
    /\ playback = [current_song_id |-> None, source |-> None, queued |-> 0]
    /\ channel = <<>>
    /\ fetches = <<>>
    /\ dropped = FALSE
    /\ rendered = [i \in 1..Len(saved_tracks) |-> to_song_model(saved_tracks[i], i - 1)]
    /\ call = [op |-> "new", arg |-> Unit, ret |-> Unit, sent |-> <<>>, sched |-> <<>>]

----------------------------------------------------------------------------
(* Operations of the view model *)

\* a call of the view model: its dispatches join the channel, its fetches start;
\* Effect is what the call does to everything but the record of the call
Effect(out) ==
    /\ ~dropped
    /\ Len(channel) + Len(out.sent) <= MaxChannel
    /\ Len(fetches) + Len(out.sched) <= MaxFetches
    /\ channel' = channel \o out.sent
    /\ fetches' = fetches \o out.sched
    /\ UNCHANGED <<library, home, saved_tracks, last_saved_tracks_batch, selection,
                   playback, rendered, dropped>>

Run(op, arg, out) ==
    /\ Effect(out)
    /\ call' = [op |-> op, arg |-> arg, ret |-> out.ret, sent |-> out.sent, sched |-> out.sched]

LoadMoreEffect ==
    /\ Len(saved_tracks) + PendingGrowth(fetches \o load_more.sched, channel) <= MaxTracks
    /\ Effect(load_more)

LoadMore ==
    /\ Len(saved_tracks) + PendingGrowth(fetches \o load_more.sched, channel) <= MaxTracks
    /\ Run("load_more", Unit, load_more)

PlaySong == \E id \in InputIds : Run("play_song", id, play_song(id))

CurrentSongId == Run("current_song_id", Unit, Outcome(current_song_id, <<>>, <<>>))

ActionsFor == \E id \in InputIds : Run("actions_for", id, actions_for(id))

MenuFor == \E id \in InputIds : Run("menu_for", id, menu_for(id))

AutoscrollToPlaying ==
    Run("autoscroll_to_playing", Unit, Outcome(autoscroll_to_playing, <<>>, <<>>))

ToolsVisible == Run("tools_visible", Unit, Outcome(tools_visible(selection), <<>>, <<>>))

DiffForEvent == \E event \in Events(Len(saved_tracks)) :
    Run("diff_for_event", event, Outcome(diff_for_event(event), <<>>, <<>>))

SelectSong == \E id \in InputIds : Run("select_song", id, select_song(id))

DeselectSong == \E id \in InputIds : Run("deselect_song", id, deselect_song(id))

EnableSelection == Run("enable_selection", Unit, enable_selection)

PlaylistSelection ==
    Run("PlaylistModel::selection", Unit, Outcome(PlaylistModel_selection, <<>>, <<>>))

ToolsSelection ==
    Run("SelectionToolsModel::selection", Unit,
        Outcome(SelectionToolsModel_selection, <<>>, <<>>))

HandleToolActivated == \E tool \in SelectionTools :
    Run("handle_tool_activated", tool, handle_tool_activated(selection, tool))

----------------------------------------------------------------------------
(* The worker and the store *)

\* call_spotify_and_dispatch: the fetch ends and what its closure yields is dispatched
FetchEffect_Direct(i, cont) ==
    /\ fetches' = Remove(fetches, i)
    /\ saved_tracks' = IF cont.ok /\ home THEN saved_tracks \o cont.action.batch.songs
                       ELSE saved_tracks
    /\ UNCHANGED <<library, home, last_saved_tracks_batch, selection, playback, channel,
                   rendered, dropped>>

\* the worker finishes a future and sends the action it yields to the UI context
FetchEffect(i, cont) ==
    /\ Len(channel) < MaxChannel
    /\ fetches' = Remove(fetches, i)
    /\ channel' = dispatch(channel, cont.action)
    /\ UNCHANGED <<library, home, saved_tracks, last_saved_tracks_batch, selection,
                   playback, rendered, dropped>>

FetchDone(i, ok) ==
    LET req == fetches[i]
        result == [ok |-> ok, offset |-> req.offset, limit |-> req.limit,
                   batch |-> get_saved_tracks(req.offset, req.limit)]
        cont == fetch_continuation(result)
    IN /\ FetchEffect(i, cont)
       /\ call' = [op |-> IF ok THEN "fetch_ok" ELSE "fetch_failed", arg |-> req,
                   ret |-> cont, sent |-> <<cont.action>>, sched |-> <<>>]

FetchSucceeds == \E i \in 1..Len(fetches) : FetchDone(i, TRUE)

FetchFails == \E i \in 1..Len(fetches) : FetchDone(i, FALSE)

\* the store takes the next action, applies it, and hands each event to the view,
\* if there still is one, which applies the diff it gets back
RECURSIVE Deliver(_, _)
Deliver(list, events) ==
    IF events = <<>> THEN list
    ELSE Deliver(ApplyDiff(list, diff_for_event(Head(events))), Tail(events))

StoreEffect(action, shown, events) ==
    /\ channel' = Tail(channel)
    /\ saved_tracks' = IF action.tag = "AppendSavedTracks"
                       THEN ReduceAppend(action.batch).saved_tracks
                       ELSE saved_tracks
    /\ last_saved_tracks_batch' = IF action.tag = "AppendSavedTracks"
                                  THEN ReduceAppend(action.batch).last_saved_tracks_batch
                                  ELSE last_saved_tracks_batch
    /\ selection' = ReduceSelection(action)
    /\ playback' = ReducePlayback(action)
    /\ UNCHANGED <<library, home, fetches, dropped>>
    /\ rendered' = IF dropped THEN shown ELSE Deliver(shown, events)'

StoreApplies ==
    /\ channel # <<>>
    /\ \E action \in {Head(channel)}, shown \in {rendered} :
       \E events \in {EventsOf(action)} :
          /\ StoreEffect(action, shown, events)
          /\ call' = [op |-> "store", arg |-> action,
                      ret |-> [diffs |-> IF dropped THEN <<>>
                                         ELSE [i \in 1..Len(events) |->
                                                  diff_for_event(events[i])']],
                      sent |-> <<>>, sched |-> <<>>]

\* another component takes over, or gives back, the shared selection
SwitchSelectionContext ==
    /\ \E c \in Contexts \ {selection.context}, keep \in BOOLEAN :
         selection' = [selection EXCEPT !.context = c,
                                        !.selected = IF keep THEN @ ELSE {}]
    /\ call' = [op |-> "switch_context", arg |-> Unit, ret |-> Unit,
                sent |-> <<>>, sched |-> <<>>]
    /\ UNCHANGED <<library, home, saved_tracks, last_saved_tracks_batch, playback,
                   channel, fetches, rendered, dropped>>

\* the view closes: its SavedTracksModel is dropped, and with it the view's clone of
\* the dispatcher; fetches already handed to the worker stay with the worker
DropView ==
    /\ ~dropped
    /\ dropped' = TRUE
    /\ call' = [op |-> "drop", arg |-> Unit, ret |-> Unit, sent |-> <<>>, sched |-> <<>>]
    /\ UNCHANGED <<library, home, saved_tracks, last_saved_tracks_batch, selection,
                   playback, channel, fetches, rendered>>

\* the pagination side of the view model: fetching, appending, diffing
NextPaging ==
    \/ LoadMore
    \/ DiffForEvent
    \/ FetchSucceeds
    \/ FetchFails
    \/ StoreApplies

\* the playback side of the view model, and the operations that only read
NextPlayback ==
    \/ PlaySong
    \/ CurrentSongId
    \/ DiffForEvent
    \/ AutoscrollToPlaying
    \/ ActionsFor
    \/ MenuFor
    \/ PlaylistSelection
    \/ ToolsSelection
    \/ ToolsVisible
    \/ StoreApplies

\* the selection side of the view model
NextSelection ==
    \/ SelectSong
    \/ DeselectSong
    \/ EnableSelection
    \/ PlaylistSelection
    \/ ToolsSelection
    \/ HandleToolActivated
    \/ SwitchSelectionContext
    \/ StoreApplies

Next == NextPaging \/ NextPlayback \/ NextSelection \/ DropView

Spec == Init /\ [][Next]_vars

\* each side on its own; every behaviour of one of them is a behaviour of Spec
SpecPaging == Init /\ [][NextPaging]_vars
SpecPlayback == Init /\ [][NextPlayback]_vars
SpecSelection == Init /\ [][NextSelection]_vars

\* fetch completions among the synchronous dispatches of the view, over a library of
\* which the first page, of the largest size, is loaded
InitOrdering ==
    /\ Init
    /\ home
    /\ Len(library) = MaxTotal
    /\ last_saved_tracks_batch.batch_size = MaxBatch
    /\ last_saved_tracks_batch.offset = 0

NextOrdering ==
    \/ LoadMore
    \/ PlaySong
    \/ SelectSong
    \/ DeselectSong
    \/ FetchSucceeds
    \/ FetchFails
    \/ StoreApplies

SpecOrdering == InitOrdering /\ [][NextOrdering]_vars

\* fetches in flight when the view closes
NextTeardown ==
    \/ LoadMore
    \/ FetchSucceeds
    \/ FetchFails
    \/ StoreApplies
    \/ DropView

SpecTeardown == Init /\ [][NextTeardown]_vars

\* paging driven to its end: the view asks for the next page only once the previous
\* completion has been applied, and asks again after a failure
LoadMoreAfterCompletion == fetches = <<>> /\ channel = <<>> /\ LoadMore

NextTermination ==
    \/ LoadMoreAfterCompletion
    \/ FetchSucceeds
    \/ FetchFails
    \/ DiffForEvent
    \/ StoreApplies

\* the same steps without the record of the call, for the fairness conditions
Called == fetches = <<>> /\ channel = <<>> /\ LoadMoreEffect

Completed ==
    \E i \in 1..Len(fetches) :
        FetchEffect(i, fetch_continuation(
            [ok |-> TRUE, offset |-> fetches[i].offset, limit |-> fetches[i].limit,
             batch |-> get_saved_tracks(fetches[i].offset, fetches[i].limit)]))

Applied ==
    /\ channel # <<>>
    /\ \E action \in {Head(channel)}, shown \in {rendered} :
       \E events \in {EventsOf(action)} : StoreEffect(action, shown, events)

in_flight == <<fetches, channel>>

\* the view keeps calling load_more after each completion and the UI main loop drains
\* the dispatcher channel (weak fairness); a fetch may fail, but success is not denied
\* for ever (strong fairness: a failure takes the fetch away, so that success is not
\* continuously possible)
SpecTermination ==
    /\ Init
    /\ [][NextTermination]_vars
    /\ WF_in_flight(Called)
    /\ SF_in_flight(Completed)
    /\ WF_in_flight(Applied)

----------------------------------------------------------------------------
(* Properties *)

\* what the view shows when it renders all of a list
Render(list) == [i \in 1..Len(list) |-> to_song_model(list[i], i - 1)]

FirstIndex(list, id) ==
    CHOOSE i \in 1..Len(list) : list[i].id = id /\ \A j \in 1..(i - 1) : list[j].id # id

\* C1: with the home state present, play_song(id) dispatches exactly two actions,
\* LoadPagedSongs(Some(SavedTracks), {last_saved_tracks_batch, all of saved_tracks})
\* and then Load(id), in that order, and nothing else.
C1_PlaySongOrder ==
    (call.op = "play_song" /\ home) =>
        /\ call.sent = <<LoadPagedSongs(Some("SavedTracks"),
                                        [batch |-> last_saved_tracks_batch,
                                         songs |-> saved_tracks]),
                         Load(call.arg)>>
        /\ Len(channel) >= 2
        /\ SubSeq(channel, Len(channel) - 1, Len(channel)) = call.sent
        /\ call.sched = <<>>

\* play("B") on [A,B,C,D,E]
C1_Witness ==
    /\ call.op = "play_song" /\ call.arg = "B" /\ home
    /\ saved_tracks = Library(5)
    /\ Len(call.sent) = 2

\* C2: when the store has appended K songs to a list of length N, the diff the view
\* is given for SavedTracksAppended(N) is Append of exactly those K songs, in order,
\* each with its absolute position N .. N+K-1 in saved_tracks.
C2_AppendDiff ==
    (call.op = "store" /\ call.arg.tag = "AppendSavedTracks" /\ home) =>
        LET K == Len(call.arg.batch.songs)
            N == Len(saved_tracks) - K
        IN /\ call.ret.diffs = <<Some(ListAppend(
                  [j \in 1..K |-> to_song_model(call.arg.batch.songs[j], N + j - 1)]))>>
           /\ \A j \in 1..K :
                /\ call.ret.diffs[1].val.items[j].id = saved_tracks[N + j].id
                /\ call.ret.diffs[1].val.items[j].position = N + j - 1

C2_Witness ==
    /\ call.op = "store" /\ call.arg.tag = "AppendSavedTracks" /\ home
    /\ Len(call.arg.batch.songs) = 2
    /\ Len(saved_tracks) = 5

\* C3: diff_for_event returns None for every event other than SavedTracksAppended,
\* and for every event when the home state is absent.
C3_DiffNone ==
    (call.op = "diff_for_event" /\ (call.arg.tag # "SavedTracksAppended" \/ ~home)) =>
        call.ret = None

C3_Witness ==
    /\ call.op = "diff_for_event" /\ call.arg.tag = "TrackChanged"
    /\ home /\ Len(saved_tracks) >= 2

\* C4: select_song(id) dispatches nothing when no song of saved_tracks has that id or
\* the home state is absent; otherwise it dispatches one Select carrying the whole
\* SongDescription of the first song with that id.
C4_SelectSong ==
    call.op = "select_song" =>
        IF home /\ \E i \in 1..Len(saved_tracks) : saved_tracks[i].id = call.arg
        THEN call.sent = <<Select(<<saved_tracks[FirstIndex(saved_tracks, call.arg)]>>)>>
        ELSE call.sent = <<>>

\* select_song("X") on a list that has no X
C4_Witness ==
    /\ call.op = "select_song" /\ call.arg = "X"
    /\ home /\ Len(saved_tracks) >= 2

\* C5: selection() is Some exactly when the selection context is Queue, and the
\* PlaylistModel and SelectionToolsModel accessors give the same answer, over the
\* store's SelectionState, in every state.
C5_SelectionScoped ==
    /\ (PlaylistModel_selection # None) <=> (selection.context = "Queue")
    /\ PlaylistModel_selection = SelectionToolsModel_selection
    /\ PlaylistModel_selection # None => PlaylistModel_selection.val = selection
    /\ call.op \in {"PlaylistModel::selection", "SelectionToolsModel::selection"} =>
           call.ret = SelectionToolsModel_selection

\* the accessor is asked while another context holds a selection
C5_Witness ==
    /\ call.op = "PlaylistModel::selection"
    /\ selection.context = "Playlist"
    /\ selection.selected # {}

\* C6: load_more returns None and schedules nothing when the home state is absent or
\* last_saved_tracks_batch.next() is None; otherwise it schedules one fetch at the
\* offset and batch_size of next() and returns Some(()); either way it dispatches
\* nothing and leaves the state as it was.
C6_LoadMore ==
    [][call'.op = "load_more" =>
          /\ app_state' = app_state
          /\ channel' = channel
          /\ call'.sent = <<>>
          /\ IF ~home \/ BatchNext(last_saved_tracks_batch) = None
             THEN call'.ret = None /\ call'.sched = <<>> /\ fetches' = fetches
             ELSE /\ call'.ret = Some(Unit)
                  /\ call'.sched =
                       <<[offset |-> BatchNext(last_saved_tracks_batch).val.offset,
                          limit |-> BatchNext(last_saved_tracks_batch).val.batch_size]>>
                  /\ fetches' = fetches \o call'.sched]_vars

C6_Witness ==
    /\ call.op = "load_more" /\ call.ret # None
    /\ last_saved_tracks_batch.offset > 0
    /\ Len(fetches) = 2

Cursor(offset, batch_size, total) ==
    [offset |-> offset, batch_size |-> batch_size, total |-> total]

\* C7, as the spec states it: with the cursor at offset 3 / batch 3 / total 5,
\* load_more fetches offset 3, limit 3.
C7_Original ==
    (call.op = "load_more" /\ home /\ last_saved_tracks_batch = Cursor(3, 3, 5)) =>
        call.sched = <<[offset |-> 3, limit |-> 3]>>

\* C7, amended: with saved_tracks = [A,B,C] and the cursor at offset 0 / batch 3 /
\* total 5, load_more fetches offset 3, limit 3; the batch [D,E] it returns is
\* dispatched as AppendSavedTracks; once applied saved_tracks = [A,B,C,D,E] and
\* next() of the cursor is None.
C7_Pagination ==
    [][/\ (/\ call'.op = "load_more"
           /\ home
           /\ saved_tracks = Take(Library(5), 3)
           /\ last_saved_tracks_batch = Cursor(0, 3, 5)) =>
              /\ call'.ret = Some(Unit)
              /\ fetches' = fetches \o <<[offset |-> 3, limit |-> 3]>>
       /\ (/\ call'.op = "fetch_ok"
           /\ call'.arg = [offset |-> 3, limit |-> 3]
           /\ library = Library(5)) =>
              channel' = channel \o
                  <<AppendSavedTracks([batch |-> Cursor(3, 3, 5),
                                       songs |-> Skip(Library(5), 3)])>>
       /\ (/\ call'.op = "store"
           /\ home
           /\ call'.arg = AppendSavedTracks([batch |-> Cursor(3, 3, 5),
                                             songs |-> Skip(Library(5), 3)])
           /\ saved_tracks = Take(Library(5), 3)) =>
              /\ saved_tracks' = Library(5)
              /\ BatchNext(last_saved_tracks_batch') = None
              /\ load_more'.ret = None]_vars

C7_Witness ==
    /\ call.op = "store" /\ call.arg.tag = "AppendSavedTracks"
    /\ saved_tracks = Library(5)
    /\ last_saved_tracks_batch = Cursor(3, 3, 5)
    /\ Len(rendered) = 5

\* C8: a fetch of load_more that fails yields no AppendSavedTracks: the failure is
\* dispatched as an action of its own through the same channel, saved_tracks and
\* last_saved_tracks_batch are the same after it is delivered, and load_more then
\* asks for the same page again.
C8_FetchFailure ==
    [][/\ call'.op = "fetch_failed" =>
              /\ channel' = channel \o <<FetchFailed>>
              /\ \A i \in 1..Len(channel') :
                    channel'[i].tag = "AppendSavedTracks" =>
                        i <= Len(channel) /\ channel[i] = channel'[i]
              /\ saved_tracks' = saved_tracks
              /\ last_saved_tracks_batch' = last_saved_tracks_batch
              /\ (load_more.sched = <<call'.arg>>) => (load_more'.sched = <<call'.arg>>)
       /\ (call'.op = "store" /\ call'.arg.tag = "FetchFailed") =>
              /\ saved_tracks' = saved_tracks
              /\ last_saved_tracks_batch' = last_saved_tracks_batch
              /\ rendered' = rendered
              /\ load_more' = load_more]_vars

\* the failure was delivered and the page it asked for can be asked for again
C8_Witness ==
    /\ call.op = "store" /\ call.arg.tag = "FetchFailed"
    /\ load_more.sched # <<>>
    /\ fetches = <<>>

\* C9: given SavedTracksAppended(M) with M other than the length of the list the
\* view has rendered, diff_for_event falls back to Reset of the whole current list
\* (stated for M inside the list, where an Append would repeat or miss items).
C9_ResetOnMismatch ==
    (/\ call.op = "diff_for_event"
     /\ home
     /\ call.arg.tag = "SavedTracksAppended"
     /\ call.arg.index # Len(rendered)
     /\ call.arg.index < Len(saved_tracks)) =>
        call.ret = Some(ListReset(Render(saved_tracks)))

\* C10: while the selection context is not Queue, select_song and deselect_song
\* dispatch no SelectionAction and handle_tool_activated(SelectAll) selects nothing.
C10_OnlyInQueueContext ==
    (/\ selection.context # "Queue"
     /\ call.op \in {"select_song", "deselect_song", "handle_tool_activated"}) =>
        \A i \in 1..Len(call.sent) : call.sent[i].tag \notin {"Select", "Deselect"}

\* C11: when the view is given SavedTracksAppended(i), the state diff_for_event reads
\* holds the songs of the append that raised the event and nothing later: the store
\* applies the action and delivers its event in one step, so what the view shows is
\* never behind saved_tracks.
C11_DeliveredWithMutation ==
    /\ home => rendered = Render(saved_tracks)
    /\ (call.op = "store" /\ call.arg.tag = "AppendSavedTracks" /\ home) =>
          /\ Len(call.ret.diffs) = 1
          /\ call.ret.diffs[1] # None
          /\ LET items == call.ret.diffs[1].val.items
                 K == Len(call.arg.batch.songs)
             IN /\ Len(items) = K
                /\ \A j \in 1..K :
                      /\ items[j].id = call.arg.batch.songs[j].id
                      /\ items[j].position = Len(saved_tracks) - K + j - 1
                      /\ rendered[Len(rendered) - K + j] = items[j]

\* an append is delivered while another action waits behind it
C11_Witness ==
    /\ call.op = "store" /\ call.arg.tag = "AppendSavedTracks" /\ home
    /\ Len(call.arg.batch.songs) >= 1
    /\ channel # <<>>
    /\ Len(rendered) > last_saved_tracks_batch.batch_size

\* C17: load_more keeps no mark of a fetch in flight: a load_more that follows a
\* load_more, nothing happening between them, schedules a fetch of the same offset
\* and limit; and every AppendSavedTracks the store applies makes saved_tracks longer
\* by the batch's length, so the page of both fetches is appended twice.
C17_DoubleLoadMore ==
    [][/\ (call.op = "load_more" /\ call'.op = "load_more" /\ call.sched # <<>>) =>
              /\ call'.sched = call.sched
              /\ fetches' = fetches \o call.sched
              /\ Len(fetches') >= 2
              /\ fetches'[Len(fetches')] = fetches'[Len(fetches') - 1]
       /\ (call'.op = "store" /\ call'.arg.tag = "AppendSavedTracks" /\ home) =>
              /\ saved_tracks' = saved_tracks \o call'.arg.batch.songs
              /\ Len(saved_tracks') = Len(saved_tracks) + Len(call'.arg.batch.songs)]_vars

\* [A,B,C] after the page [D,E] arrived twice
C17_Witness ==
    /\ call.op = "store" /\ call.arg.tag = "AppendSavedTracks"
    /\ saved_tracks = Library(5) \o Skip(Library(5), 3)
    /\ fetches = <<>> /\ channel = <<>>

\* C18: without a home state play_song(id) dispatches Load(id) alone, and in every
\* state its last dispatch is Load(id), whether or not saved_tracks has that id.
C18_PlaySongUnchecked ==
    call.op = "play_song" =>
        /\ call.sent # <<>>
        /\ call.sent[Len(call.sent)] = Load(call.arg)
        /\ ~home => call.sent = <<Load(call.arg)>>
        /\ \A i \in 1..Len(call.sent) : call.sent[i].tag = "LoadPagedSongs" => home

\* play_song("X") without a home state
C18_Witness ==
    /\ call.op = "play_song" /\ call.arg = "X" /\ ~home
    /\ Len(channel) = 2

\* C20: with the home state present, diff_for_event(SavedTracksAppended(i)) is
\* Some(Append(saved_tracks[i..])) for every i: of length max(0, len - i), and so
\* Some(Append(<<>>)), not None, for i at or past the end.
C20_AppendSuffix ==
    (call.op = "diff_for_event" /\ home /\ call.arg.tag = "SavedTracksAppended") =>
        LET i == call.arg.index
            len == Len(saved_tracks)
        IN /\ call.ret # None
           /\ call.ret.val.diff = "Append"
           /\ Len(call.ret.val.items) = Max(0, len - i)
           /\ i >= len => call.ret = Some(ListAppend(<<>>))
           /\ \A j \in 1..Len(call.ret.val.items) :
                 call.ret.val.items[j] = to_song_model(saved_tracks[i + j], i + j - 1)

\* an index past the end of a list that has songs
C20_Witness ==
    /\ call.op = "diff_for_event" /\ home /\ call.arg.tag = "SavedTracksAppended"
    /\ Len(saved_tracks) >= 2
    /\ call.arg.index = Len(saved_tracks) + 1

\* C14: actions_for(id) and menu_for(id) are absent exactly when saved_tracks has no
\* song of that id or the home state is absent; otherwise both give a descriptor,
\* and the menu is "view album", then one "view artist" entry per artist of the song
\* in the order of its artists, then "copy link".
C14_ActionsAndMenu ==
    LET present == home /\ \E i \in 1..Len(saved_tracks) : saved_tracks[i].id = call.arg
        song == saved_tracks[FirstIndex(saved_tracks, call.arg)]
    IN /\ call.op = "actions_for" =>
             /\ (call.ret = None) <=> ~present
             /\ call.sent = <<>>
       /\ call.op = "menu_for" =>
             /\ (call.ret = None) <=> ~present
             /\ present =>
                  LET menu == call.ret.val
                      n == Len(song.artists)
                  IN /\ Len(menu) = n + 2
                     /\ menu[1].action = <<"song.view_album">>
                     /\ \A k \in 1..n :
                           menu[k + 1].action = <<"song.view_artist_", song.artists[k].id>>
                     /\ menu[n + 2].action = <<"song.copy_link">>

\* the menu of B, which has two artists
C14_Witness ==
    /\ call.op = "menu_for" /\ call.arg = "B"
    /\ call.ret # None
    /\ Len(call.ret.val) = 4

\* C15: handle_tool_activated hands SelectAll to the select-all handler with all of
\* saved_tracks, in order, when the home state is present, and does nothing when it
\* is absent; any other tool goes to the default handler and never to select-all;
\* tools_visible is the one tool SelectAll in every state.
C15_Tools ==
    /\ tools_visible(selection) = <<"SelectAll">>
    /\ call.op = "handle_tool_activated" =>
          IF call.arg = "SelectAll"
          THEN IF home
               THEN /\ call.ret = Handled("handle_select_all_tool", selection, saved_tracks)
                    /\ call.sent = handle_select_all_tool(selection, saved_tracks)
               ELSE call.ret.handler = "none" /\ call.sent = <<>>
          ELSE /\ call.ret = Handled("default_handle_tool_activated", selection, call.arg)
               /\ call.sent = default_handle_tool_activated(selection, call.arg)
               /\ \A i \in 1..Len(call.sent) : call.sent[i].tag # "Select"

\* another tool than SelectAll, on a list that has songs
C15_Witness ==
    /\ call.op = "handle_tool_activated" /\ call.arg = "MoveUp"
    /\ home /\ Len(saved_tracks) >= 2

ReadOperations ==
    {"current_song_id", "diff_for_event", "autoscroll_to_playing", "actions_for",
     "menu_for", "PlaylistModel::selection", "SelectionToolsModel::selection",
     "tools_visible"}

\* C19: current_song_id, diff_for_event, autoscroll_to_playing, actions_for, menu_for,
\* both selection accessors and tools_visible dispatch nothing, schedule nothing and
\* leave AppState as it was, in every state; autoscroll_to_playing returns true.
C19_ReadOnly ==
    [][call'.op \in ReadOperations =>
          /\ app_state' = app_state
          /\ channel' = channel
          /\ fetches' = fetches
          /\ call'.sent = <<>>
          /\ call'.sched = <<>>
          /\ call'.op = "autoscroll_to_playing" => call'.ret = TRUE
          /\ call'.op = "current_song_id" => call'.ret = playback.current_song_id]_vars

\* a read while a song plays and an action waits in the channel
C19_Witness ==
    /\ call.op = "actions_for" /\ call.ret # None
    /\ playback.current_song_id # None
    /\ channel # <<>>

\* C16: with a finite total, every fetch completing successfully and load_more called
\* again after each completion, paging eventually reaches a state, kept forever, where
\* the cursor has no next page, nothing is in flight, and load_more returns None and
\* schedules no fetch.
C16_Terminates ==
    <>[](/\ fetches = <<>>
         /\ home => BatchNext(last_saved_tracks_batch) = None
         /\ load_more = Outcome(None, <<>>, <<>>))

\* the last of several pages has been fetched and applied, and load_more said None
C16_Witness ==
    /\ home
    /\ call.op = "load_more" /\ call.ret = None
    /\ last_saved_tracks_batch.offset >= 2 * last_saved_tracks_batch.batch_size
    /\ saved_tracks = library

\* C12: AppState changes only in a step of the store that takes the action at the head
\* of the channel and applies exactly that one action; a fetch completion changes no
\* AppState, it only puts its one action at the tail of the channel, behind what was
\* dispatched before it; and the actions of one play_song call enter the channel
\* together.
C12_SingleWriter ==
    [][/\ app_state' # app_state =>
            /\ channel # <<>>
            /\ channel' = Tail(channel)
            /\ call'.op = "store"
            /\ call'.arg = Head(channel)
            /\ saved_tracks' = IF Head(channel).tag = "AppendSavedTracks" /\ home
                               THEN saved_tracks \o Head(channel).batch.songs
                               ELSE saved_tracks
            /\ last_saved_tracks_batch' = IF Head(channel).tag = "AppendSavedTracks" /\ home
                                          THEN Head(channel).batch.batch
                                          ELSE last_saved_tracks_batch
            /\ selection' = ReduceSelection(Head(channel))
            /\ playback' = ReducePlayback(Head(channel))
       /\ call'.op \in {"fetch_ok", "fetch_failed"} =>
            /\ app_state' = app_state
            /\ channel' = channel \o <<call'.ret.action>>
            /\ \E i \in 1..Len(fetches) : fetches' = Remove(fetches, i)
       /\ call'.op \in {"load_more", "play_song", "select_song", "deselect_song"} =>
            /\ app_state' = app_state
            /\ channel' = channel \o call'.sent]_vars

\* a completion is dispatched while the second action of a play_song pair still waits
C12_Witness ==
    /\ call.op = "fetch_ok"
    /\ Len(channel) = 2
    /\ channel[1].tag = "Load"
    /\ channel[2].tag = "AppendSavedTracks"
    /\ playback.source # None

\* C13: dropping the view model cancels nothing: the drop leaves the fetches in flight,
\* the channel and AppState as they were; a fetch that completes afterwards still
\* dispatches AppendSavedTracks with the page it asked for; the store still appends
\* that page to saved_tracks; and the dropped view is not called and shows nothing new.
C13_DropKeepsFetch ==
    [][/\ call'.op = "drop" =>
            fetches' = fetches /\ channel' = channel /\ app_state' = app_state
       /\ dropped =>
            /\ call'.op \in {"fetch_ok", "fetch_failed", "store"}
            /\ rendered' = rendered
            /\ call'.op = "fetch_ok" =>
                 /\ call'.sent = <<AppendSavedTracks(
                                     get_saved_tracks(call'.arg.offset, call'.arg.limit))>>
                 /\ channel' = channel \o call'.sent
            /\ call'.op = "store" =>
                 /\ call'.ret.diffs = <<>>
                 /\ call'.arg.tag = "AppendSavedTracks" /\ home =>
                      saved_tracks' = saved_tracks \o call'.arg.batch.songs]_vars

\* songs fetched for the dropped view have landed in saved_tracks, unseen by the view
C13_Witness ==
    /\ dropped
    /\ call.op = "store"
    /\ call.arg.tag = "AppendSavedTracks"
    /\ call.arg.batch.songs # <<>>
    /\ Len(saved_tracks) > Len(rendered)

====
